---- MODULE Spec2Model ----
(***************************************************************************)
(* A model of three classes of nautilus_trader:                            *)
(*   - WindowedMinMaxPrices (indicators/utils/windowed_min_max_prices.pyx) *)
(*   - MarketOrder          (same file, second half)                       *)
(*   - TradingNode          (live/node.pyx)                                *)
(* Each part has its own specification (WindowSpec, OrderSpec, NodeSpec);  *)
(* the variables of the other parts stay unchanged.                        *)
(***************************************************************************)
EXTENDS Integers, Sequences, FiniteSets, TLC

VARIABLES
    \* ---- WindowedMinMaxPrices instance ----
    lookback,       \* self.lookback (a duration, in ticks)
    min_price,      \* self.min_price (None until there is data)
    max_price,      \* self.max_price
    _min_prices,    \* self._min_prices: deque of <<ts, price>>, front = index 1
    _max_prices,    \* self._max_prices
    \* ---- history of the calls made on the instance ----
    ctorLookback,   \* the lookback __init__ was called with
    hist,           \* the successful add_price calls since __init__ / reset()
    lastOp,         \* the last operation called
    lastTz,         \* the time zone of the timestamp it was called with
    lastError,      \* the error the last operation raised, or NoError
    resetSeen,      \* TRUE once reset() was called on an instance holding data
    \* ---- MarketOrder ----
    order,          \* the MarketOrder, or NoOrder while none was constructed
    \* ---- history of the calls made on the order ----
    ordOp,          \* the last operation called
    ordArg,         \* for a construction: the time_in_force it was given
    ordError,       \* the error the last operation raised, or NoError
    applied,        \* the execution ids of the OrderFilled events applied, in order
    sumQty,         \* the sum of their fill_qty
    sumNotional,    \* the sum of their fill_price * fill_qty
    \* ---- TradingNode ----
    node,           \* the TradingNode's fields, or NoNode while none is built
    nodeCalls,      \* the calls __init__ made, in order; an object is known by
                    \* the position of the call that constructed it
    nodeConfig,     \* the configuration __init__ read
    nodeError,      \* the error the last operation raised, or NoError
    dataClient,     \* the last call made on the LiveDataClient
    execClient,     \* the last call made on the LiveExecClient
    trader          \* the last call made on the Trader, and its strategies

winVars == <<lookback, min_price, max_price, _min_prices, _max_prices,
             ctorLookback, hist, lastOp, lastTz, lastError, resetSeen>>

ordVars == <<order, ordOp, ordArg, ordError, applied, sumQty, sumNotional>>

nodeVars == <<node, nodeCalls, nodeConfig, nodeError, dataClient, execClient, trader>>

vars == <<winVars, ordVars, nodeVars>>

(***************************************************************************)
(* Bounds of the model                                                     *)
(***************************************************************************)
MaxTs == 2          \* timestamps are 0..MaxTs
MaxPrice == 3       \* prices are 1..MaxPrice
MaxLookback == 1    \* lookbacks are 1..MaxLookback
MaxAdds == 3        \* successful add_price calls between two resets
MaxQty == 2         \* order quantities are 0..MaxQty
MaxFillQty == 2     \* fill quantities are 0..MaxFillQty
MaxFillPrice == 2   \* fill prices are 1..MaxFillPrice
MaxFillTs == 1      \* fill timestamps are 1..MaxFillTs
MaxFills == 2       \* OrderFilled events applied to one order

Times == 0..MaxTs
Prices == 1..MaxPrice
Lookbacks == 1..MaxLookback
TimeZones == {"UTC", "other"}

None == -1
NoError == "none"

Quantities == 0..MaxQty
FillQuantities == 0..MaxFillQty
FillPrices == 1..MaxFillPrice
FillTimes == 1..MaxFillTs
ExecutionIds == {"E-1", "E-2", "E-3"}
TimeInForce == {"UNDEFINED", "DAY", "GTC", "IOC", "FOK", "GTD"}
OrderType == {"MARKET", "LIMIT"}
OrderSide == {"BUY", "SELL"}

(***************************************************************************)
(* Helpers on sequences                                                    *)
(***************************************************************************)
Last(s) == s[Len(s)]
Front(s) == SubSeq(s, 1, Len(s) - 1)
SetMin(S) == CHOOSE m \in S : \A y \in S : m <= y
SetMax(S) == CHOOSE m \in S : \A y \in S : m >= y
PricesOf(q) == {q[i][2] : i \in 1..Len(q)}

(***************************************************************************)
(* nautilus_trader.core (not part of the sources at hand)                  *)
(***************************************************************************)
\* is_datetime_utc(ts): the timestamp is tz-aware and its zone is UTC
is_datetime_utc(ts) == ts.tz = "UTC"

\* Condition.true(predicate, description): raises when the predicate is false
Condition_true(predicate, error) == IF predicate THEN NoError ELSE error

(***************************************************************************)
(* WindowedMinMaxPrices                                                    *)
(***************************************************************************)
\* __init__(lookback)
WindowedMinMaxPrices(lb) ==
    [lookback |-> lb, min_price |-> None, max_price |-> None,
     _min_prices |-> <<>>, _max_prices |-> <<>>]

\* a slip of _expire_stale_prices_by_cutoff: nothing is dropped
_expire_nothing(ts_prices, cutoff) == ts_prices

\* a slip of _expire_stale_prices_by_cutoff: the entry at the cutoff goes too
RECURSIVE _expire_through_cutoff(_, _)
_expire_through_cutoff(ts_prices, cutoff) ==
    IF ts_prices # <<>> /\ Head(ts_prices)[1] <= cutoff
    THEN _expire_through_cutoff(Tail(ts_prices), cutoff)
    ELSE ts_prices

\* _expire_stale_prices_by_cutoff: popleft while the front is older than cutoff
RECURSIVE _expire_stale_prices_by_cutoff(_, _)
_expire_stale_prices_by_cutoff(ts_prices, cutoff) ==
    IF ts_prices # <<>> /\ Head(ts_prices)[1] < cutoff
    THEN _expire_stale_prices_by_cutoff(Tail(ts_prices), cutoff)
    ELSE ts_prices

\* _add_min_price, first loop: pop() while the tail price <= price
RECURSIVE min_pop_tail(_, _)
min_pop_tail(q, price) ==
    IF q # <<>> /\ Last(q)[2] <= price
    THEN min_pop_tail(Front(q), price)
    ELSE q

\* _add_min_price, second loop: popleft() while the front price <= price
RECURSIVE min_pop_front(_, _)
min_pop_front(q, price) ==
    IF q # <<>> /\ Head(q)[2] <= price
    THEN min_pop_front(Tail(q), price)
    ELSE q

\* _add_min_price as the standard monotonic deque has it: pop() while the tail
\* price >= price, no popleft()
RECURSIVE min_pop_tail_ge(_, _)
min_pop_tail_ge(q, price) ==
    IF q # <<>> /\ Last(q)[2] >= price
    THEN min_pop_tail_ge(Front(q), price)
    ELSE q

_add_min_price_standard(q, ts, price) ==
    Append(min_pop_tail_ge(q, price), <<ts, price>>)

_add_min_price(q, ts, price) ==
    Append(min_pop_front(min_pop_tail(q, price), price), <<ts, price>>)

\* a slip of _add_max_price: the tail comparison turned round
RECURSIVE max_pop_tail_ge(_, _)
max_pop_tail_ge(q, price) ==
    IF q # <<>> /\ Last(q)[2] >= price
    THEN max_pop_tail_ge(Front(q), price)
    ELSE q

\* _add_max_price, first loop: pop() while the tail price <= price
RECURSIVE max_pop_tail(_, _)
max_pop_tail(q, price) ==
    IF q # <<>> /\ Last(q)[2] <= price
    THEN max_pop_tail(Front(q), price)
    ELSE q

\* a slip of _add_max_price's second loop: popleft() while the front price > price
RECURSIVE max_pop_front_gt(_, _)
max_pop_front_gt(q, price) ==
    IF q # <<>> /\ Head(q)[2] > price
    THEN max_pop_front_gt(Tail(q), price)
    ELSE q

\* _add_max_price, second loop: popleft() while the front price <= price
RECURSIVE max_pop_front(_, _)
max_pop_front(q, price) ==
    IF q # <<>> /\ Head(q)[2] <= price
    THEN max_pop_front(Tail(q), price)
    ELSE q

_add_max_price(q, ts, price) ==
    Append(max_pop_front(max_pop_tail(q, price), price), <<ts, price>>)

\* a slip of add_price: the UTC check made after the expiry
add_price_check_late(w, ts, price) ==
    LET cutoff == ts.t - w.lookback
        emins == _expire_stale_prices_by_cutoff(w._min_prices, cutoff)
        emaxs == _expire_stale_prices_by_cutoff(w._max_prices, cutoff)
        mins == _add_min_price(emins, ts.t, price)
        maxs == _add_max_price(emaxs, ts.t, price)
    IN  IF Condition_true(is_datetime_utc(ts), "TimestampNotUtc") # NoError
        THEN [w EXCEPT !._min_prices = emins, !._max_prices = emaxs]
        ELSE [w EXCEPT !._min_prices = mins,
                       !._max_prices = maxs,
                       !.min_price = SetMin(PricesOf(mins)),
                       !.max_price = SetMax(PricesOf(maxs))]

\* add_price(ts, price) on the instance w: the instance afterwards.
\* A raise of Condition.true leaves before anything is touched.
add_price(w, ts, price) ==
    IF Condition_true(is_datetime_utc(ts), "TimestampNotUtc") # NoError
    THEN w
    ELSE LET cutoff == ts.t - w.lookback
             mins == _add_min_price(
                        _expire_stale_prices_by_cutoff(w._min_prices, cutoff),
                        ts.t, price)
             maxs == _add_max_price(
                        _expire_stale_prices_by_cutoff(w._max_prices, cutoff),
                        ts.t, price)
         IN  [w EXCEPT !._min_prices = mins,
                       !._max_prices = maxs,
                       !.min_price = SetMin(PricesOf(mins)),
                       !.max_price = SetMax(PricesOf(maxs))]

\* a slip of reset: the deques are cleared, the min/max marks are left
reset_keeps_marks(w) ==
    [w EXCEPT !._min_prices = <<>>, !._max_prices = <<>>]

\* a slip of reset: the max deque is not cleared
reset_keeps_max(w) ==
    [w EXCEPT !.min_price = None, !.max_price = None, !._min_prices = <<>>]

\* reset()
reset(w) ==
    [w EXCEPT !.min_price = None, !.max_price = None,
              !._min_prices = <<>>, !._max_prices = <<>>]

\* the instance as a record
Self == [lookback |-> lookback, min_price |-> min_price, max_price |-> max_price,
         _min_prices |-> _min_prices, _max_prices |-> _max_prices]

SetSelf(w) ==
    /\ lookback' = w.lookback
    /\ min_price' = w.min_price
    /\ max_price' = w.max_price
    /\ _min_prices' = w._min_prices
    /\ _max_prices' = w._max_prices

\* the state after WindowedMinMaxPrices(lb)
WindowNew(lb) ==
    /\ ctorLookback = lb
    /\ lookback = WindowedMinMaxPrices(lb).lookback
    /\ min_price = WindowedMinMaxPrices(lb).min_price
    /\ max_price = WindowedMinMaxPrices(lb).max_price
    /\ _min_prices = WindowedMinMaxPrices(lb)._min_prices
    /\ _max_prices = WindowedMinMaxPrices(lb)._max_prices
    /\ hist = <<>>
    /\ lastOp = "__init__"
    /\ lastTz = "n/a"
    /\ lastError = NoError
    /\ resetSeen = FALSE

\* a call of add_price with a UTC timestamp
AddPrice ==
    \E t \in Times, p \in Prices :
        LET ts == [t |-> t, tz |-> "UTC"] IN
        /\ Len(hist) < MaxAdds
        /\ SetSelf(add_price(Self, ts, p))
        /\ hist' = Append(hist, <<t, p>>)
        /\ lastOp' = "add_price"
        /\ lastTz' = ts.tz
        /\ lastError' = Condition_true(is_datetime_utc(ts), "TimestampNotUtc")
        /\ UNCHANGED <<ctorLookback, resetSeen>>
        /\ UNCHANGED <<ordVars, nodeVars>>

\* a call of add_price with a timestamp that is not UTC (the price plays no
\* part in what follows, so one price stands for all)
AddPriceNotUtc ==
    \E t \in Times, p \in {MaxPrice}, tz \in TimeZones \ {"UTC"} :
        LET ts == [t |-> t, tz |-> tz] IN
        /\ SetSelf(add_price(Self, ts, p))
        /\ lastOp' = "add_price"
        /\ lastTz' = ts.tz
        /\ lastError' = Condition_true(is_datetime_utc(ts), "TimestampNotUtc")
        /\ UNCHANGED <<ctorLookback, hist, resetSeen>>
        /\ UNCHANGED <<ordVars, nodeVars>>

\* a call of reset()
Reset ==
    /\ SetSelf(reset(Self))
    /\ hist' = <<>>
    /\ lastOp' = "reset"
    /\ lastTz' = "n/a"
    /\ UNCHANGED ctorLookback
    /\ UNCHANGED <<ordVars, nodeVars>>
    /\ lastError' = NoError
    /\ resetSeen' = (resetSeen \/ hist # <<>>)

WindowNext == AddPrice \/ AddPriceNotUtc \/ Reset

(***************************************************************************)
(* Decimal values (Price, Quantity products and quotients) as fractions    *)
(***************************************************************************)
Abs(x) == IF x < 0 THEN -x ELSE x

RECURSIVE GCD(_, _)
GCD(a, b) == IF b = 0 THEN Abs(a) ELSE GCD(b, a % Abs(b))

\* the fraction n/d in lowest terms, d > 0
Frac(n, d) == LET g == GCD(n, d) IN <<n \div g, d \div g>>

(***************************************************************************)
(* nautilus_trader.core and nautilus_trader.model.order.base (not part of  *)
(* the sources at hand)                                                    *)
(***************************************************************************)
\* Condition.positive(value, param): raises when value <= 0
Condition_positive(value, error) == IF value > 0 THEN NoError ELSE error

\* Condition.equal(a, b, ...): raises when a != b
Condition_equal(a, b, error) == IF a = b THEN NoError ELSE error

\* the value of an order field that holds None
NoneId == "None"
NonePrice == <<>>
NoOrder == [cl_ord_id |-> NoneId]

\* Order.__init__(init_event): the order takes its fields from the event and
\* starts unfilled
Order(init_event) ==
    [cl_ord_id |-> init_event.cl_ord_id,
     strategy_id |-> init_event.strategy_id,
     symbol |-> init_event.symbol,
     side |-> init_event.order_side,
     type |-> init_event.order_type,
     quantity |-> init_event.quantity,
     time_in_force |-> init_event.time_in_force,
     init_id |-> init_event.event_id,
     timestamp |-> init_event.event_timestamp,
     id |-> NoneId,
     position_id |-> NoneId,
     execution_id |-> NoneId,
     _execution_ids |-> <<>>,
     filled_qty |-> 0,
     filled_timestamp |-> None,
     avg_price |-> NonePrice]

\* Order._calculate_avg_price(fill_price, fill_qty), called by _filled once
\* filled_qty holds the new total: the fill-quantity-weighted mean of the fill
\* prices applied so far, None while nothing is filled
_calculate_avg_price(self, fill_price, fill_qty) ==
    IF self.filled_qty = 0 THEN NonePrice
    ELSE LET prior == IF self.avg_price = NonePrice THEN <<0, 1>> ELSE self.avg_price
             prior_qty == self.filled_qty - fill_qty
         IN  Frac(prior[1] * prior_qty + fill_price * fill_qty * prior[2],
                  prior[2] * self.filled_qty)

(***************************************************************************)
(* MarketOrder                                                             *)
(***************************************************************************)
_MARKET_ORDER_VALID_TIF == {"GTC", "IOC", "FOK"}

\* a slip of __init__: the time_in_force check left out
MarketOrder_any_tif(cl_ord_id, strategy_id, symbol, order_side, quantity, time_in_force, init_id, timestamp) ==
    IF Condition_positive(quantity, "QuantityNonPositive") # NoError
    THEN [order |-> NoOrder, error |-> "QuantityNonPositive"]
    ELSE [order |-> Order([cl_ord_id |-> cl_ord_id, strategy_id |-> strategy_id,
                           symbol |-> symbol, order_side |-> order_side,
                           order_type |-> "MARKET", quantity |-> quantity,
                           time_in_force |-> time_in_force, event_id |-> init_id,
                           event_timestamp |-> timestamp]),
          error |-> NoError]

\* MarketOrder.__init__: the order built, or the error raised and no order
MarketOrder(cl_ord_id, strategy_id, symbol, order_side, quantity, time_in_force, init_id, timestamp) ==
    IF Condition_positive(quantity, "QuantityNonPositive") # NoError
    THEN [order |-> NoOrder, error |-> "QuantityNonPositive"]
    ELSE IF Condition_true(time_in_force \in _MARKET_ORDER_VALID_TIF,
                           "TimeInForceInvalid") # NoError
    THEN [order |-> NoOrder, error |-> "TimeInForceInvalid"]
    ELSE [order |-> Order([cl_ord_id |-> cl_ord_id, strategy_id |-> strategy_id,
                           symbol |-> symbol, order_side |-> order_side,
                           order_type |-> "MARKET", quantity |-> quantity,
                           time_in_force |-> time_in_force, event_id |-> init_id,
                           event_timestamp |-> timestamp]),
          error |-> NoError]

\* MarketOrder.create(event)
create(event) ==
    IF Condition_equal(event.order_type, "MARKET", "ValueError") # NoError
    THEN [order |-> NoOrder, error |-> "ValueError"]
    ELSE MarketOrder(event.cl_ord_id, event.strategy_id, event.symbol,
                     event.order_side, event.quantity, event.time_in_force,
                     event.event_id, event.event_timestamp)

\* a slip of _amended: the amend applied as on a working limit order
_amended_applies(self, event) ==
    [order |-> [self EXCEPT !.quantity = event.quantity], error |-> NoError]

\* MarketOrder._amended(event): always raises (the raise statement calls
\* NotImplemented, which itself raises); the order is not touched
_amended(self, event) ==
    [order |-> self, error |-> "AmendNotSupported"]

\* a slip of _filled: filled_qty set to the quantity of the fill
_filled_last_qty(self, event) ==
    LET o1 == [self EXCEPT !.id = event.order_id,
                           !.position_id = event.position_id,
                           !.strategy_id = event.strategy_id,
                           !._execution_ids = Append(@, event.execution_id),
                           !.execution_id = event.execution_id,
                           !.filled_qty = event.fill_qty,
                           !.filled_timestamp = event.timestamp]
    IN  [o1 EXCEPT !.avg_price =
                      _calculate_avg_price(o1, event.fill_price, event.fill_qty)]

\* a slip of _filled: avg_price computed before filled_qty is updated
_filled_avg_first(self, event) ==
    LET o1 == [self EXCEPT !.id = event.order_id,
                           !.position_id = event.position_id,
                           !.strategy_id = event.strategy_id,
                           !._execution_ids = Append(@, event.execution_id),
                           !.execution_id = event.execution_id]
        avg == _calculate_avg_price(o1, event.fill_price, event.fill_qty)
    IN  [o1 EXCEPT !.filled_qty = @ + event.fill_qty,
                   !.filled_timestamp = event.timestamp,
                   !.avg_price = avg]

\* MarketOrder._filled(event)
_filled(self, event) ==
    LET o1 == [self EXCEPT !.id = event.order_id,
                           !.position_id = event.position_id,
                           !.strategy_id = event.strategy_id,
                           !._execution_ids = Append(@, event.execution_id),
                           !.execution_id = event.execution_id,
                           !.filled_qty = @ + event.fill_qty,
                           !.filled_timestamp = event.timestamp]
    IN  [o1 EXCEPT !.avg_price =
                      _calculate_avg_price(o1, event.fill_price, event.fill_qty)]

\* the OrderInitialized events a strategy may send
OrderInitializedEvents ==
    [cl_ord_id : {"O-1"}, strategy_id : {"S-1"}, symbol : {"AUD/USD"},
     order_side : OrderSide, order_type : OrderType, quantity : Quantities,
     time_in_force : TimeInForce, event_id : {"U-1"}, event_timestamp : {0}]

\* the OrderFilled events a venue may send for the order
OrderFilledEvents ==
    [order_id : {"B-1"}, position_id : {"P-1"}, strategy_id : {"S-1"},
     execution_id : ExecutionIds, fill_qty : FillQuantities,
     fill_price : FillPrices, timestamp : FillTimes]

\* the OrderAmended events a venue may send for the order
OrderAmendedEvents == [quantity : 1..MaxQty]

\* the state before any MarketOrder is constructed
OrderNone ==
    /\ order = NoOrder
    /\ ordOp = "none"
    /\ ordArg = "n/a"
    /\ ordError = NoError
    /\ applied = <<>>
    /\ sumQty = 0
    /\ sumNotional = 0

\* MarketOrder(...) called directly
Construct ==
    \E e \in OrderInitializedEvents :
        LET r == MarketOrder(e.cl_ord_id, e.strategy_id, e.symbol, e.order_side,
                             e.quantity, e.time_in_force, e.event_id,
                             e.event_timestamp) IN
        /\ order = NoOrder
        /\ e.order_type = "MARKET"
        /\ order' = r.order
        /\ ordOp' = "__init__"
        /\ ordArg' = e.time_in_force
        /\ ordError' = r.error
        /\ UNCHANGED <<applied, sumQty, sumNotional>>
        /\ UNCHANGED <<winVars, nodeVars>>

\* MarketOrder.create(event) called with an OrderInitialized event
Create ==
    \E e \in OrderInitializedEvents :
        LET r == create(e) IN
        /\ order = NoOrder
        /\ order' = r.order
        /\ ordOp' = "create"
        /\ ordArg' = e.time_in_force
        /\ ordError' = r.error
        /\ UNCHANGED <<applied, sumQty, sumNotional>>
        /\ UNCHANGED <<winVars, nodeVars>>

\* an OrderFilled event applied to the order
Filled ==
    \E e \in OrderFilledEvents :
        /\ order # NoOrder
        /\ Len(applied) < MaxFills
        /\ order' = _filled(order, e)
        /\ ordOp' = "filled"
        /\ ordArg' = "n/a"
        /\ ordError' = NoError
        /\ applied' = Append(applied, e.execution_id)
        /\ sumQty' = sumQty + e.fill_qty
        /\ sumNotional' = sumNotional + e.fill_price * e.fill_qty
        /\ UNCHANGED <<winVars, nodeVars>>

\* an OrderAmended event applied to the order
Amended ==
    \E e \in OrderAmendedEvents :
        LET r == _amended(order, e) IN
        /\ order # NoOrder
        /\ order' = r.order
        /\ ordOp' = "amended"
        /\ ordArg' = "n/a"
        /\ ordError' = r.error
        /\ UNCHANGED <<applied, sumQty, sumNotional>>
        /\ UNCHANGED <<winVars, nodeVars>>

OrderNext == Construct \/ Create \/ Filled \/ Amended

(***************************************************************************)
(* TradingNode                                                             *)
(***************************************************************************)
NoNode == [id |-> 0]

\* the configurations a config file may hold, as far as __init__ branches on
\* them, and the strategies a caller may pass
ExecDatabaseTypes == {"redis", "Redis", "REDIS", "in-memory", "mongo"}
Configs == [exec_database : [type : ExecDatabaseTypes]]
StrategyLists == {<<>>, <<"S-1">>, <<"S-1", "S-2">>}

\* a slip of __init__: the engine is given a database of its own
TradingNode_second_db(config_loads, config, strategies) ==
    IF ~config_loads
    THEN [node |-> NoNode, calls |-> <<>>, error |-> "ConfigError"]
    ELSE
    LET clock == 1
        guid_factory == 2
        zmq_context == 3
        id == 4
        trader_id == 5
        log_store == 6
        logger == 7
        log == 8
        data_client == 9
        account == 10
        portfolio == 11
        exec_db == 12
        other_db == 13
        exec_engine == 14
        exec_client == 15
        the_trader == 17
    IN  [node |-> [id |-> id, _clock |-> clock, _guid_factory |-> guid_factory,
                   _zmq_context |-> zmq_context, _log_store |-> log_store,
                   _logger |-> logger, _log |-> log, _data_client |-> data_client,
                   account |-> account, portfolio |-> portfolio,
                   _exec_db |-> exec_db, _exec_engine |-> exec_engine,
                   _exec_client |-> exec_client, trader |-> the_trader],
         calls |-> <<
            [call |-> "LiveClock", args |-> [on |-> 0]],
            [call |-> "LiveGuidFactory", args |-> [on |-> 0]],
            [call |-> "zmq.Context", args |-> [on |-> 0]],
            [call |-> "GUID", args |-> [on |-> 0]],
            [call |-> "TraderId", args |-> [on |-> 0]],
            [call |-> "LogStore", args |-> [trader_id |-> trader_id]],
            [call |-> "LiveLogger", args |-> [clock |-> clock, store |-> log_store]],
            [call |-> "LoggerAdapter", args |-> [logger |-> logger]],
            [call |-> "LiveDataClient",
             args |-> [zmq_context |-> zmq_context, clock |-> clock,
                       guid_factory |-> guid_factory, logger |-> logger]],
            [call |-> "Account", args |-> [on |-> 0]],
            [call |-> "Portfolio",
             args |-> [clock |-> clock, guid_factory |-> guid_factory,
                       logger |-> logger]],
            [call |-> IF config.exec_database.type = "redis"
                      THEN "RedisExecutionDatabase"
                      ELSE "InMemoryExecutionDatabase",
             args |-> [trader_id |-> trader_id, logger |-> logger]],
            [call |-> "InMemoryExecutionDatabase",
             args |-> [trader_id |-> trader_id, logger |-> logger]],
            [call |-> "LiveExecutionEngine",
             args |-> [database |-> other_db, account |-> account,
                       portfolio |-> portfolio, clock |-> clock,
                       guid_factory |-> guid_factory, logger |-> logger]],
            [call |-> "LiveExecClient",
             args |-> [exec_engine |-> exec_engine, zmq_context |-> zmq_context,
                       logger |-> logger]],
            [call |-> "register_client",
             args |-> [on |-> exec_engine, client |-> exec_client]],
            [call |-> "Trader",
             args |-> [trader_id |-> trader_id, strategies |-> strategies,
                       data_client |-> data_client, exec_engine |-> exec_engine,
                       clock |-> clock, logger |-> logger]] >>,
         error |-> NoError]

\* TradingNode.__init__(config_path, strategies): the node's fields and the
\* calls made, in order.  config_loads tells whether config_path passes its
\* check and the file opens and parses; config is what the file then holds.
TradingNode(config_loads, config, strategies) ==
    IF ~config_loads
    THEN [node |-> NoNode, calls |-> <<>>, error |-> "ConfigError"]
    ELSE
    LET clock == 1
        guid_factory == 2
        zmq_context == 3
        id == 4
        trader_id == 5
        log_store == 6
        logger == 7
        log == 8
        data_client == 9
        account == 10
        portfolio == 11
        exec_db == 12
        exec_engine == 13
        exec_client == 14
        the_trader == 16
    IN  [node |-> [id |-> id, _clock |-> clock, _guid_factory |-> guid_factory,
                   _zmq_context |-> zmq_context, _log_store |-> log_store,
                   _logger |-> logger, _log |-> log, _data_client |-> data_client,
                   account |-> account, portfolio |-> portfolio,
                   _exec_db |-> exec_db, _exec_engine |-> exec_engine,
                   _exec_client |-> exec_client, trader |-> the_trader],
         calls |-> <<
            [call |-> "LiveClock", args |-> [on |-> 0]],
            [call |-> "LiveGuidFactory", args |-> [on |-> 0]],
            [call |-> "zmq.Context", args |-> [on |-> 0]],
            [call |-> "GUID", args |-> [on |-> 0]],
            [call |-> "TraderId", args |-> [on |-> 0]],
            [call |-> "LogStore", args |-> [trader_id |-> trader_id]],
            [call |-> "LiveLogger", args |-> [clock |-> clock, store |-> log_store]],
            [call |-> "LoggerAdapter", args |-> [logger |-> logger]],
            [call |-> "LiveDataClient",
             args |-> [zmq_context |-> zmq_context, clock |-> clock,
                       guid_factory |-> guid_factory, logger |-> logger]],
            [call |-> "Account", args |-> [on |-> 0]],
            [call |-> "Portfolio",
             args |-> [clock |-> clock, guid_factory |-> guid_factory,
                       logger |-> logger]],
            [call |-> IF config.exec_database.type = "redis"
                      THEN "RedisExecutionDatabase"
                      ELSE "InMemoryExecutionDatabase",
             args |-> [trader_id |-> trader_id, logger |-> logger]],
            [call |-> "LiveExecutionEngine",
             args |-> [database |-> exec_db, account |-> account,
                       portfolio |-> portfolio, clock |-> clock,
                       guid_factory |-> guid_factory, logger |-> logger]],
            [call |-> "LiveExecClient",
             args |-> [exec_engine |-> exec_engine, zmq_context |-> zmq_context,
                       logger |-> logger]],
            [call |-> "register_client",
             args |-> [on |-> exec_engine, client |-> exec_client]],
            [call |-> "Trader",
             args |-> [trader_id |-> trader_id, strategies |-> strategies,
                       data_client |-> data_client, exec_engine |-> exec_engine,
                       clock |-> clock, logger |-> logger]] >>,
         error |-> NoError]

\* the state before any TradingNode is constructed
NodeNone ==
    /\ node = NoNode
    /\ nodeCalls = <<>>
    /\ nodeConfig = [exec_database |-> [type |-> "none"]]
    /\ nodeError = NoError
    /\ dataClient = "none"
    /\ execClient = "none"
    /\ trader = [call |-> "none", strategies |-> <<>>]

\* TradingNode(config_path, strategies) is called
NodeConstruct ==
    \E config_loads \in BOOLEAN, config \in Configs, strategies \in StrategyLists :
        LET r == TradingNode(config_loads, config, strategies) IN
        /\ node = NoNode
        /\ node' = r.node
        /\ nodeCalls' = r.calls
        /\ nodeError' = r.error
        /\ nodeConfig' = IF r.error = NoError THEN config ELSE nodeConfig
        /\ dataClient' = IF r.error = NoError THEN "__init__" ELSE dataClient
        /\ execClient' = IF r.error = NoError THEN "__init__" ELSE execClient
        /\ trader' = IF r.error = NoError
                     THEN [call |-> "__init__", strategies |-> strategies]
                     ELSE trader
        /\ UNCHANGED <<winVars, ordVars>>

\* load_strategies(strategies)
NodeLoadStrategies ==
    \E strategies \in StrategyLists :
        /\ node # NoNode
        /\ trader' = [call |-> "initialize_strategies", strategies |-> strategies]
        /\ nodeError' = NoError
        /\ UNCHANGED <<node, nodeCalls, nodeConfig, dataClient, execClient>>
        /\ UNCHANGED <<winVars, ordVars>>

\* connect()
NodeConnect ==
    /\ node # NoNode
    /\ dataClient' = "update_instruments"
    /\ execClient' = "connect"
    /\ nodeError' = NoError
    /\ UNCHANGED <<node, nodeCalls, nodeConfig, trader>>
    /\ UNCHANGED <<winVars, ordVars>>

\* start()
NodeStart ==
    /\ node # NoNode
    /\ trader' = [trader EXCEPT !.call = "start"]
    /\ nodeError' = NoError
    /\ UNCHANGED <<node, nodeCalls, nodeConfig, dataClient, execClient>>
    /\ UNCHANGED <<winVars, ordVars>>

\* stop()
NodeStop ==
    /\ node # NoNode
    /\ trader' = [trader EXCEPT !.call = "stop"]
    /\ nodeError' = NoError
    /\ UNCHANGED <<node, nodeCalls, nodeConfig, dataClient, execClient>>
    /\ UNCHANGED <<winVars, ordVars>>

\* disconnect()
NodeDisconnect ==
    /\ node # NoNode
    /\ dataClient' = "disconnect"
    /\ execClient' = "disconnect"
    /\ nodeError' = NoError
    /\ UNCHANGED <<node, nodeCalls, nodeConfig, trader>>
    /\ UNCHANGED <<winVars, ordVars>>

\* dispose()
NodeDispose ==
    /\ node # NoNode
    /\ trader' = [trader EXCEPT !.call = "dispose"]
    /\ dataClient' = "dispose"
    /\ execClient' = "dispose"
    /\ nodeError' = NoError
    /\ UNCHANGED <<node, nodeCalls, nodeConfig>>
    /\ UNCHANGED <<winVars, ordVars>>

NodeNext ==
    \/ NodeConstruct \/ NodeLoadStrategies \/ NodeConnect \/ NodeStart
    \/ NodeStop \/ NodeDisconnect \/ NodeDispose

\* a WindowedMinMaxPrices of any lookback is constructed; no order is in play
WindowInit == (\E lb \in Lookbacks : WindowNew(lb)) /\ OrderNone /\ NodeNone

WindowSpec == WindowInit /\ [][WindowNext]_vars

\* no order is constructed yet; the window instance is left as constructed
OrderInit == WindowNew(1) /\ OrderNone /\ NodeNone

OrderSpec == OrderInit /\ [][OrderNext]_vars

\* no node is constructed yet
NodeInit == WindowNew(1) /\ OrderNone /\ NodeNone

NodeSpec == NodeInit /\ [][NodeNext]_vars

(***************************************************************************)
(* Properties of WindowedMinMaxPrices                                      *)
(***************************************************************************)
\* the timestamps of the adds since __init__ / reset() never went back
NonDecreasingTs(h) == \A i \in 1..(Len(h) - 1) : h[i][1] <= h[i + 1][1]

\* the prices added since __init__ / reset() that lie in the window of the last add
WindowPrices ==
    {hist[i][2] : i \in {j \in 1..Len(hist) : hist[j][1] >= Last(hist)[1] - lookback}}

\* C1: with non-decreasing UTC timestamps, after add_price(t, p) min_price is
\* the minimum price over all adds so far whose timestamp is >= t - lookback.
C1_MinIsWindowMin ==
    (hist # <<>> /\ NonDecreasingTs(hist)) => min_price = SetMin(WindowPrices)

\* C2: with non-decreasing UTC timestamps, after add_price(t, p) max_price is
\* the maximum price over all adds so far whose timestamp is >= t - lookback.
C2_MaxIsWindowMax ==
    (hist # <<>> /\ NonDecreasingTs(hist)) => max_price = SetMax(WindowPrices)

\* C2 witness: three adds in time order, the first one (a higher price than any
\* later one) has left the window, and the maximum is not the price just added.
C2_Witness ==
    /\ lastOp = "add_price" /\ lastError = NoError
    /\ Len(hist) = 3 /\ NonDecreasingTs(hist)
    /\ hist[1][1] < Last(hist)[1] - lookback
    /\ hist[1][2] > max_price
    /\ max_price > Last(hist)[2]

\* C8: add_price with a timestamp that is not UTC fails with TimestampNotUtc
\* and leaves min_price, max_price and both sequences as they were.
C8_NotUtcFailsUnchanged ==
    [][(lastOp' = "add_price" /\ lastTz' # "UTC")
        => /\ lastError' = "TimestampNotUtc"
           /\ UNCHANGED <<min_price, max_price, _min_prices, _max_prices>>]_vars

\* C8 witness: a call with a non-UTC timestamp has failed on an instance that
\* holds an entry every later timestamp but its own would have expired.
C8_Witness ==
    /\ lastOp = "add_price" /\ lastTz # "UTC" /\ lastError = "TimestampNotUtc"
    /\ _max_prices # <<>>
    /\ Head(_max_prices)[1] = 0
    /\ min_price # None

\* the instance a fresh WindowedMinMaxPrices(lb) becomes after the adds h
RECURSIVE Replay(_, _)
Replay(w, h) ==
    IF h = <<>> THEN w
    ELSE Replay(add_price(w, [t |-> Head(h)[1], tz |-> "UTC"], Head(h)[2]), Tail(h))

\* C9: after reset() the instance is like new: whatever was added before, it
\* equals a freshly constructed instance (same lookback) given the adds made
\* since the reset; right after reset() both prices are None and both
\* sequences are empty.
C9_ResetLikeNew ==
    resetSeen => Self = Replay(WindowedMinMaxPrices(ctorLookback), hist)

\* C9 witness: a reset of an instance that held data, and two adds after it
C9_Witness ==
    /\ resetSeen /\ lastOp = "add_price" /\ lastError = NoError
    /\ Len(hist) = 2 /\ Len(_max_prices) = 2

\* the min-sequence holds prices in non-decreasing order, front to back
MinSeqNonDecreasing(q) == \A i \in 1..(Len(q) - 1) : q[i][2] <= q[i + 1][2]

\* q without its trailing entries of price >= price
RECURSIVE DropTrailingGE(_, _)
DropTrailingGE(q, price) ==
    IF q # <<>> /\ Last(q)[2] >= price THEN DropTrailingGE(Front(q), price) ELSE q

\* C10: the min-sequence is always in non-decreasing price order, and a
\* successful add_price(ts, price) evicts from its tail exactly the trailing
\* entries with value >= price.
C10_MinSeqOrdered ==
    [][/\ MinSeqNonDecreasing(_min_prices')
       /\ (lastOp' = "add_price" /\ lastError' = NoError) =>
            LET ts == Last(hist')[1]
                price == Last(hist')[2]
                q == _expire_stale_prices_by_cutoff(_min_prices, ts - lookback)
            IN  min_pop_tail(q, price) = DropTrailingGE(q, price)]_vars

(***************************************************************************)
(* Properties of MarketOrder                                               *)
(***************************************************************************)
Range(q) == {q[i] : i \in 1..Len(q)}

\* the OrderFilled events applied so far all carry different execution ids
DistinctExecutionIds == Cardinality(Range(applied)) = Len(applied)

\* C3: an OrderFilled whose execution_id is already in execution_ids is a
\* no-op that returns success: execution_ids, filled_qty, avg_price and the
\* fill timestamp stay as they were.
C3_DuplicateFillNoOp ==
    [][(/\ order # NoOrder
        /\ ordOp' = "filled"
        /\ Len(applied') = Len(applied) + 1
        /\ Last(applied') \in Range(order._execution_ids))
       => /\ ordError' = NoError
          /\ order'._execution_ids = order._execution_ids
          /\ order'.filled_qty = order.filled_qty
          /\ order'.avg_price = order.avg_price
          /\ order'.filled_timestamp = order.filled_timestamp]_vars

\* C4: after any OrderFilled events, 0 <= filled_qty <= quantity.
C4_FilledWithinQuantity ==
    order # NoOrder => (0 <= order.filled_qty /\ order.filled_qty <= order.quantity)

C7_TimeInForceValid ==
    [][/\ order' # NoOrder => order'.time_in_force \in {"GTC", "IOC", "FOK"}
       /\ (ordOp' \in {"__init__", "create"} /\ ordArg' \notin {"GTC", "IOC", "FOK"})
            => (order' = NoOrder /\ ordError' # NoError)
       /\ (order # NoOrder /\ order' # NoOrder)
            => order'.time_in_force = order.time_in_force]_vars

\* C7 witness: an order built by create, then filled and asked to amend
C7_Witness ==
    /\ order # NoOrder /\ ordOp = "amended"
    /\ Len(applied) >= 1
    /\ order.time_in_force = "FOK"

(***************************************************************************)
(* Further properties of WindowedMinMaxPrices                              *)
(***************************************************************************)
\* a successful add_price has just returned
AddedOk == lastOp = "add_price" /\ lastError = NoError

\* the max-sequence holds prices in non-increasing order, front to back
MaxSeqNonIncreasing(q) == \A i \in 1..(Len(q) - 1) : q[i][2] >= q[i + 1][2]

\* q without its trailing entries of price <= price
RECURSIVE DropTrailingLE(_, _)
DropTrailingLE(q, price) ==
    IF q # <<>> /\ Last(q)[2] <= price THEN DropTrailingLE(Front(q), price) ELSE q

\* C11: the max-sequence is always in non-increasing price order, and a
\* successful add_price(ts, price) evicts the trailing entries with value
\* <= price (and nothing else beyond the expired front) before appending
\* (ts, price).
C11_MaxSeqOrdered ==
    [][/\ MaxSeqNonIncreasing(_max_prices')
       /\ (lastOp' = "add_price" /\ lastError' = NoError) =>
            LET ts == Last(hist')[1]
                price == Last(hist')[2]
                q == _expire_stale_prices_by_cutoff(_max_prices, ts - lookback)
            IN  _max_prices' = Append(DropTrailingLE(q, price), <<ts, price>>)]_vars

\* C11 witness: the third add evicted the second (lower) price from the tail
\* and kept the first (higher) one in front of it
C11_Witness ==
    /\ AddedOk /\ Len(hist) = 3 /\ Len(_max_prices) = 2
    /\ hist[2][2] < Last(hist)[2]
    /\ Head(_max_prices) = hist[1]
    /\ hist[1][2] > Last(hist)[2]

\* the entries of q that are not older than cutoff
NotStale(q, cutoff) == SelectSeq(q, LAMBDA e : e[1] >= cutoff)

\* C12: after every add_price(ts, price) of a run with non-decreasing
\* timestamps neither sequence holds an entry with timestamp < ts - lookback,
\* and the expiry removes no entry whose timestamp is the cutoff (or later).
C12_NoStaleEntries ==
    [][(lastOp' = "add_price" /\ lastError' = NoError /\ NonDecreasingTs(hist')) =>
         LET cutoff == Last(hist')[1] - lookback IN
         /\ \A i \in 1..Len(_min_prices') : _min_prices'[i][1] >= cutoff
         /\ \A i \in 1..Len(_max_prices') : _max_prices'[i][1] >= cutoff
         /\ _expire_stale_prices_by_cutoff(_min_prices, cutoff)
              = NotStale(_min_prices, cutoff)
         /\ _expire_stale_prices_by_cutoff(_max_prices, cutoff)
              = NotStale(_max_prices, cutoff)]_vars

\* C12 witness: in a run in time order the first add has expired and the
\* entry at the front of both sequences sits exactly at the cutoff
C12_Witness ==
    /\ AddedOk /\ Len(hist) = 3 /\ NonDecreasingTs(hist)
    /\ hist[1][1] < Last(hist)[1] - lookback
    /\ Head(_max_prices)[1] = Last(hist)[1] - lookback
    /\ Head(_min_prices)[1] = Last(hist)[1] - lookback

\* C13: after every successful add_price, min_price is the price of the front
\* entry of the min-sequence and max_price that of the front entry of the
\* max-sequence.
C13_PricesAreFronts ==
    hist # <<>> => /\ min_price = Head(_min_prices)[2]
                   /\ max_price = Head(_max_prices)[2]

\* the adds since __init__ / reset() whose timestamp lies in the window of the
\* last add, [ts - lookback, ts]
WindowAdds ==
    {j \in 1..Len(hist) : /\ hist[j][1] >= Last(hist)[1] - lookback
                          /\ hist[j][1] <= Last(hist)[1]}

\* C15: memory is bounded by the window: after every add_price of a run with
\* non-decreasing timestamps each sequence is at most as long as the number of
\* adds in the current window, and as the number of distinct prices among them.
C15_MemoryBounded ==
    (hist # <<>> /\ NonDecreasingTs(hist)) =>
        LET distinct == Cardinality({hist[j][2] : j \in WindowAdds}) IN
        /\ Len(_min_prices) <= Cardinality(WindowAdds)
        /\ Len(_max_prices) <= Cardinality(WindowAdds)
        /\ Len(_min_prices) <= distinct
        /\ Len(_max_prices) <= distinct

\* C15 witness: three adds in time order, the first has left the window and
\* the two others, of different prices, fill both sequences
C15_Witness ==
    /\ AddedOk /\ Len(hist) = 3 /\ NonDecreasingTs(hist)
    /\ Cardinality(WindowAdds) = 2
    /\ Len(_max_prices) = 2 /\ Len(_min_prices) = 2

\* C16: min_price and max_price are both None exactly when no add_price has
\* succeeded since __init__ or the last reset(); after a successful add_price
\* both are set and min_price <= max_price.
C16_NoneUntilData ==
    /\ (hist = <<>>) <=> (min_price = None /\ max_price = None)
    /\ hist # <<>> => /\ min_price # None
                      /\ max_price # None
                      /\ min_price <= max_price

\* C16 witness: after a reset of an instance that held data, adds have set the
\* two prices apart again
C16_Witness ==
    /\ resetSeen /\ AddedOk
    /\ min_price # None /\ min_price < max_price

\* C18: in every reachable state, whatever the interleaving of add_price and
\* reset and whatever the timestamps, the min-sequence and the max-sequence
\* hold the same entries, one for one.
C18_SequencesIdentical == _min_prices = _max_prices

\* C18 witness: after a reset and adds whose timestamps went back, the two
\* sequences hold two entries each
C18_Witness ==
    /\ resetSeen /\ AddedOk /\ ~NonDecreasingTs(hist)
    /\ Len(_min_prices) = 2 /\ Len(_max_prices) = 2

StrictlyDecreasing(q) == \A i \in 1..(Len(q) - 1) : q[i][2] > q[i + 1][2]

\* the standard monotonic deque for a maximum: evict at the tail only, append
StandardMaxAdd(q, ts, price) == Append(DropTrailingLE(q, price), <<ts, price>>)

\* C21: in every reachable state both sequences are strictly decreasing in
\* price from front to back, and for whatever add_price(ts, price) comes next
\* the front-eviction loop of _add_min_price and of _add_max_price removes an
\* entry only if the tail-eviction loop before it has left no entry of a
\* price above the new one, and then only by emptying the sequence; so
\* _add_max_price gives what the tail-only monotonic deque gives.
C21_FrontLoopsChangeNothing ==
    /\ StrictlyDecreasing(_min_prices)
    /\ StrictlyDecreasing(_max_prices)
    /\ \A t \in Times, price \in Prices :
        LET cutoff == t - lookback
            mins == min_pop_tail(
                        _expire_stale_prices_by_cutoff(_min_prices, cutoff), price)
            emaxs == _expire_stale_prices_by_cutoff(_max_prices, cutoff)
            maxs == max_pop_tail(emaxs, price)
        IN  /\ min_pop_front(mins, price) # mins =>
                /\ \A i \in DOMAIN mins : mins[i][2] <= price
                /\ min_pop_front(mins, price) = <<>>
            /\ max_pop_front(maxs, price) # maxs =>
                /\ \A i \in DOMAIN maxs : maxs[i][2] <= price
                /\ max_pop_front(maxs, price) = <<>>
            /\ _add_max_price(emaxs, t, price) = StandardMaxAdd(emaxs, t, price)

\* an add has evicted an entry at the tail and met a higher price at the front:
\* prices 3, 1, 2 were added and the sequences hold 3 and 2
C21_Witness ==
    /\ AddedOk
    /\ Len(hist) = 3
    /\ hist[2][2] < hist[3][2]
    /\ hist[3][2] < hist[1][2]
    /\ Len(_max_prices) = 2
    /\ Len(_min_prices) = 2
    /\ _max_prices[1][2] > _max_prices[2][2]

C17_FilledFrame ==
    [][(order # NoOrder /\ ordOp' = "filled" /\ Len(applied') = Len(applied) + 1) =>
         /\ order'._execution_ids = Append(order._execution_ids, Last(applied'))
         /\ order'.filled_qty = order.filled_qty + (sumQty' - sumQty)
         /\ (Cardinality(Range(applied')) = Len(applied')) =>
               /\ order'._execution_ids = applied'
               /\ order'.execution_id = Last(applied')
               /\ order'.filled_qty = sumQty'
         /\ order'.quantity = order.quantity
         /\ order'.side = order.side
         /\ order'.symbol = order.symbol
         /\ order'.time_in_force = order.time_in_force
         /\ order'.cl_ord_id = order.cl_ord_id]_vars

\* C17 witness: two fills with distinct ids, both of a positive quantity
C17_Witness ==
    /\ order # NoOrder /\ ordOp = "filled"
    /\ Len(applied) = 2 /\ DistinctExecutionIds
    /\ order._execution_ids = applied
    /\ order.filled_qty > MaxFillQty

(***************************************************************************)
(* Properties of TradingNode                                               *)
(***************************************************************************)
ExecutionDatabases == {"RedisExecutionDatabase", "InMemoryExecutionDatabase"}

\* the positions in nodeCalls of the calls to any of the given names
CallsTo(names) == {i \in DOMAIN nodeCalls : nodeCalls[i].call \in names}

\* C20: a constructed TradingNode has built exactly one execution database,
\* which is the one it keeps in _exec_db and the one its execution engine was
\* given; that database is the Redis one exactly when the configured
\* exec_database type is the string "redis" and the in-memory one otherwise;
\* and the execution client was registered with the engine before the Trader
\* was constructed.
C20_OneExecDatabase ==
    node # NoNode =>
        /\ CallsTo(ExecutionDatabases) = {node._exec_db}
        /\ CallsTo({"LiveExecutionEngine"}) = {node._exec_engine}
        /\ nodeCalls[node._exec_engine].args.database = node._exec_db
        /\ nodeCalls[node._exec_db].call =
               IF nodeConfig.exec_database.type = "redis"
               THEN "RedisExecutionDatabase"
               ELSE "InMemoryExecutionDatabase"
        /\ CallsTo({"Trader"}) = {node.trader}
        /\ \E r \in CallsTo({"register_client"}) :
               /\ nodeCalls[r].args.on = node._exec_engine
               /\ nodeCalls[r].args.client = node._exec_client
               /\ r < node.trader

\* a node configured with "Redis" (not "redis") is built on the in-memory
\* database, and has been started
C20_Witness ==
    /\ node # NoNode
    /\ nodeConfig.exec_database.type = "Redis"
    /\ nodeCalls[node._exec_db].call = "InMemoryExecutionDatabase"
    /\ nodeCalls[node._exec_engine].args.database = node._exec_db
    /\ trader.call = "start"

====
